---- MODULE Spec2Model ----
(***************************************************************************)
(* Model of the iMessage MCP server (src/src/index.js): the four tool      *)
(* operations over the read-only chat.db store and the CallTool request    *)
(* handler that wraps them.                                                *)
(*                                                                         *)
(* Strings that the code pattern-matches (identifiers, handle ids, names)  *)
(* are sequences of one-character strings.  A store-native timestamp       *)
(* (nanoseconds since 2001-01-01) is a record [sec, ns] with               *)
(* value = sec * 10^9 + ns, compared lexicographically, so that no value   *)
(* leaves the 32-bit integers of the model checker.                        *)
(***************************************************************************)
EXTENDS Integers, Sequences, FiniteSets

VARIABLES
    chat,               \* table chat: ROWID -> row
    handle,             \* table handle: set of ROWIDs present (id text is HandleText)
    message,            \* table message: ROWID -> row
    chat_message_join,  \* table chat_message_join: set of [chat_id, message_id]
    chat_handle_join,   \* table chat_handle_join: set of [chat_id, handle_id]
    pc,                 \* "idle": waiting for a request; "done": handler has returned
    request,            \* the CallTool request being handled (name, arguments, clock, fault)
    response,           \* what the request handler returned
    propagated,         \* TRUE iff a failure escaped the request handler
    acquired,           \* number of store handles the call opened
    released,           \* number of db.close() calls the call made
    handleOpen,         \* TRUE iff a handle opened by the call is still open
    raised,             \* messages of the failures raised during the call, in order
    queries             \* names of the queries the call sent to the store, in order

store == <<chat, handle, message, chat_message_join, chat_handle_join>>
vars == <<chat, handle, message, chat_message_join, chat_handle_join,
          pc, request, response, propagated, acquired, released, handleOpen, raised, queries>>

-----------------------------------------------------------------------------
(* Bounds of the model *)

\* largest explicit `limit` argument a request carries
MaxLimit == 2

-----------------------------------------------------------------------------
(* Values *)

\* SQL NULL / JS null in a string-valued column
NULL == "<null>"
\* SQL NULL in a character-sequence column
NullText == <<NULL>>
\* SQL NULL in a date column (MAX over no rows)
NullDate == [sec |-> -1, ns |-> 0]
\* JS null in place of a display timestamp
NullDisplay == [sec |-> -1, ms |-> 0]

Digit == {"0", "1", "2", "3", "4", "5", "6", "7", "8", "9"}

DigitValue(ch) ==
    CASE ch = "0" -> 0 [] ch = "1" -> 1 [] ch = "2" -> 2 [] ch = "3" -> 3 [] ch = "4" -> 4
      [] ch = "5" -> 5 [] ch = "6" -> 6 [] ch = "7" -> 7 [] ch = "8" -> 8 [] ch = "9" -> 9

DigitChar(n) ==
    CASE n = 0 -> "0" [] n = 1 -> "1" [] n = 2 -> "2" [] n = 3 -> "3" [] n = 4 -> "4"
      [] n = 5 -> "5" [] n = 6 -> "6" [] n = 7 -> "7" [] n = 8 -> "8" [] n = 9 -> "9"

\* /^\d+$/.test(identifier)
IsNumeric(identifier) ==
    /\ Len(identifier) > 0
    /\ \A i \in 1..Len(identifier) : identifier[i] \in Digit

\* parseInt(identifier) of an all-digit string
RECURSIVE parseInt(_)
parseInt(identifier) ==
    IF identifier = <<>> THEN 0
    ELSE 10 * parseInt(SubSeq(identifier, 1, Len(identifier) - 1))
         + DigitValue(identifier[Len(identifier)])

\* `${chatId}`: the decimal text of a non-negative integer
RECURSIVE NumberText(_)
NumberText(n) ==
    IF n < 10 THEN <<DigitChar(n)>>
    ELSE Append(NumberText(n \div 10), DigitChar(n % 10))

\* identifier.replace(/[^0-9+]/g, ''): keeps every digit and every '+'
cleanNumber(identifier) ==
    SelectSeq(identifier, LAMBDA ch : ch \in Digit \cup {"+"})

\* SQLite's LIKE folds ASCII letters; the letters below are the ones the store holds
Fold(ch) ==
    CASE ch = "F" -> "f" [] ch = "T" -> "t" [] ch = "C" -> "c" [] OTHER -> ch

\* text LIKE '%' || needle || '%' (needle without % or _): NULL never matches
Like(text, needle) ==
    /\ text # NullText
    /\ \E off \in 0..(Len(text) - Len(needle)) :
          \A i \in 1..Len(needle) : Fold(text[off + i]) = Fold(needle[i])

-----------------------------------------------------------------------------
(* Time *)

appleEpoch == 978307200

\* Natural order of store-native timestamps; NullDate is below every date
DateLess(a, b) ==
    \/ a.sec < b.sec
    \/ a.sec = b.sec /\ a.ns < b.ns

\* getAppleTimestamp(daysBack): daysBack is the rational num/den (den = 24 for
\* the hours-based caller); now is Date.now() as [sec, ms]
getAppleTimestamp(now, daysBack) ==
    LET nowAppleSeconds == now.sec - appleEpoch
        thresholdSeconds == nowAppleSeconds - ((daysBack.num * 24 * 60 * 60) \div daysBack.den)
    IN  [sec |-> thresholdSeconds, ns |-> 0]

\* the filter written as m.date >= ?
AfterOrAtThreshold(date, threshold) ==
    ~DateLess(date, threshold)

\* m.date > ?
AfterThreshold(date, threshold) ==
    DateLess(threshold, date)

\* datetime(m.date/1000000000 + strftime('%s','2001-01-01'), 'unixepoch', ...):
\* integer division, then the epoch offset; the text form is left as Unix seconds
SqlDatetime(date) ==
    date.sec + appleEpoch

\* new Date((d / 1000000000 + 978307200) * 1000): Unix milliseconds as [sec, ms]
ToDisplay(date) ==
    [sec |-> date.sec + appleEpoch, ms |-> date.ns \div 1000000]

-----------------------------------------------------------------------------
(* The store: fixed texts of the rows the model draws its tables from *)

ChatIds == {7, 8, 9}
HandleIds == {1, 2, 3}
MsgIds == {1, 2, 3}
GroupIds == {"G1", "G2"}

\* the raw punctuated phone number "+1 (555) 123-4567"
RawPhone == <<"+", "1", " ", "(", "5", "5", "5", ")", " ", "1", "2", "3", "-", "4", "5", "6", "7">>
\* "5551234567"
BarePhone == <<"5", "5", "5", "1", "2", "3", "4", "5", "6", "7">>
\* "+15551234567"
PlusPhone == <<"+", "1", "5", "5", "5", "1", "2", "3", "4", "5", "6", "7">>

\* handle.id of each handle row
HandleText(h) ==
    CASE h = 1 -> BarePhone
      [] h = 2 -> PlusPhone
      [] h = 3 -> <<"t", "e", "l", ":">> \o RawPhone

\* chat.display_name, chat.chat_identifier and chat.service_name of each chat row
ChatDisplayName(c) ==
    IF c = 7 THEN <<"F", "a", "m">> ELSE NullText

ChatIdentifier(c) ==
    CASE c = 7 -> <<"c", "7">>
      [] c = 8 -> <<"c", "8">>
      [] c = 9 -> PlusPhone

ChatService(c) ==
    IF c = 8 THEN "SMS" ELSE "iMessage"

ChatRow(c, gid) ==
    [display_name |-> ChatDisplayName(c), chat_identifier |-> ChatIdentifier(c),
     service_name |-> ChatService(c), group_id |-> gid]

\* Date.now() of every call, as [sec, ms]
Clock == [sec |-> 1793923200, ms |-> 500]

\* the store-native timestamp `seconds` before Clock.sec, plus ns nanoseconds
Ago(seconds, ns) == [sec |-> Clock.sec - appleEpoch - seconds, ns |-> ns]

Dates == {Ago(31 * 86400, 0), Ago(25 * 3600, 0), Ago(24 * 3600, 0), Ago(24 * 3600, 1),
          Ago(3600, 500000000)}

Texts == {NULL, "", "hi"}

\* message.handle_id (0: no handle row), message.is_from_me, message.service
MsgHandle(m) == IF m = 3 THEN 0 ELSE m
MsgFromMe(m) == m = 3
MsgService(m) == IF m = 2 THEN "SMS" ELSE "iMessage"

MsgRow(m, date, text) ==
    [date |-> date, text |-> text, is_from_me |-> MsgFromMe(m),
     handle_id |-> MsgHandle(m), service |-> MsgService(m)]

Joins(pairs) == {[chat_id |-> p[1], message_id |-> p[2]] : p \in pairs}

BaseHandleJoin ==
    {[chat_id |-> p[1], handle_id |-> p[2]] : p \in {<<7, 1>>, <<7, 2>>, <<8, 1>>, <<8, 2>>, <<9, 2>>}}

TypeOK ==
    /\ DOMAIN chat \subseteq ChatIds
    /\ \A c \in DOMAIN chat : chat[c].group_id \in GroupIds \cup {NULL}
    /\ handle \subseteq HandleIds
    /\ DOMAIN message \subseteq MsgIds
    /\ \A m \in DOMAIN message : message[m].text \in Texts
    /\ pc \in {"idle", "done"}
    /\ acquired \in 0..1
    /\ released \in 0..2
    /\ handleOpen \in BOOLEAN
    /\ propagated \in BOOLEAN

-----------------------------------------------------------------------------
(* SQL and JS helpers *)

\* a default parameter value: an optional argument is <<>> (undefined) or <<v>>
Default(arg, dflt) == IF arg = <<>> THEN dflt ELSE arg[1]

\* SQL `a = b`: never true when either side is NULL
SqlEq(a, b) == a # NULL /\ b # NULL /\ a = b

\* JS `text || other` on a text that may be null or empty
OrElse(text, other) == IF text = NullText \/ text = <<>> THEN other ELSE text

\* every ordering of a set of rows that ORDER BY <ord> DESC allows (ties in any order)
RECURSIVE OrderByDesc(_)
OrderByDesc(rows) ==
    IF rows = {} THEN {<<>>}
    ELSE UNION {{<<r>> \o rest : rest \in OrderByDesc(rows \ {r})} :
                r \in {x \in rows : \A y \in rows : ~DateLess(x.ord, y.ord)}}

\* every ordering of the rows of a query that states no ORDER BY
RECURSIVE AnyOrder(_)
AnyOrder(rows) ==
    IF rows = {} THEN {<<>>}
    ELSE UNION {{<<r>> \o rest : rest \in AnyOrder(rows \ {r})} : r \in rows}

\* LIMIT n: SQLite reads a negative n as no limit
Limit(rows, n) ==
    IF n < 0 \/ n >= Len(rows) THEN rows ELSE SubSeq(rows, 1, n)

Range(seq) == {seq[i] : i \in 1..Len(seq)}

\* (SELECT COUNT(*) FROM chat_handle_join WHERE chat_id = c.ROWID)
ParticipantCount(c) ==
    Cardinality({j \in chat_handle_join : j.chat_id = c})

\* (SELECT MAX(m.date) FROM chat_message_join cmj JOIN message m ... WHERE cmj.chat_id = c.ROWID)
LastMessageDate(c) ==
    LET dates == {message[j.message_id].date :
                    j \in {x \in chat_message_join :
                             x.chat_id = c /\ x.message_id \in DOMAIN message}}
    IN  IF dates = {} THEN NullDate
        ELSE CHOOSE d \in dates : \A e \in dates : ~DateLess(d, e)

-----------------------------------------------------------------------------
(* Failures and outcomes of an operation *)

\* messages of the failures a call can raise
OpenError == [msg |-> "SQLITE_CANTOPEN: unable to open database file", arg |-> <<>>]
QueryError == [msg |-> "SQLITE_ERROR", arg |-> <<>>]
CloseError == [msg |-> "SQLITE_MISUSE: Database is closed", arg |-> <<>>]
RangeError == [msg |-> "Invalid time value", arg |-> <<>>]
ChatNotFound(chatId) == [msg |-> "Chat not found: ", arg |-> NumberText(chatId)]
ContactNotFound(identifier) == [msg |-> "Contact not found: ", arg |-> identifier]
UnknownTool(name) == [msg |-> "Unknown tool: ", arg |-> name]
NoError == [msg |-> "", arg |-> <<>>]
NoResult == [op |-> "none"]

\* const db = await this.openDb() rejects: nothing was acquired, the catch block
\* of the operation is not entered
OpenFailed ==
    [threw |-> TRUE, error |-> OpenError, result |-> NoResult, acquired |-> 0,
     released |-> 0, handleOpen |-> FALSE, raised |-> <<OpenError>>, queries |-> <<>>]

\* the try block ran to its return: one db.close()
Returned(result, qs) ==
    [threw |-> FALSE, error |-> NoError, result |-> result, acquired |-> 1,
     released |-> 1, handleOpen |-> FALSE, raised |-> <<>>, queries |-> qs]

\* a step before `await db.close()` threw: catch (error) { await db.close(); throw error; }
Caught(error, qs) ==
    [threw |-> TRUE, error |-> error, result |-> NoResult, acquired |-> 1,
     released |-> 1, handleOpen |-> FALSE, raised |-> <<error>>, queries |-> qs]

\* a step after `await db.close()` threw: the catch block closes the handle a second
\* time; the driver either accepts the second close (the first error is rethrown) or
\* rejects it (the close error is thrown instead)
CaughtAfterClose(error, qs) ==
    {[threw |-> TRUE, error |-> error, result |-> NoResult, acquired |-> 1,
      released |-> 2, handleOpen |-> FALSE, raised |-> <<error>>, queries |-> qs],
     [threw |-> TRUE, error |-> CloseError, result |-> NoResult, acquired |-> 1,
      released |-> 2, handleOpen |-> FALSE, raised |-> <<error, CloseError>>, queries |-> qs]}

-----------------------------------------------------------------------------
(* listConversations *)

\* GROUP BY c.group_id: every NULL group_id falls into the same group
ListGroupKey(c) == chat[c].group_id

\* the rows of the SELECT of listConversations, before ORDER BY and LIMIT
ListRow(c) ==
    [chat_id |-> c, display_name |-> chat[c].display_name,
     chat_identifier |-> chat[c].chat_identifier, service_name |-> chat[c].service_name,
     group_id |-> chat[c].group_id, participant_count |-> ParticipantCount(c),
     last_message_date |-> LastMessageDate(c), ord |-> LastMessageDate(c)]

\* WHERE 1=1 ${serviceFilter}
ListFilter(includeSms) ==
    {c \in DOMAIN chat : includeSms \/ chat[c].service_name = "iMessage"}

\* every way to keep one chat out of each group of GROUP BY c.group_id: SQLite
\* reads the bare columns of a group from an arbitrary row of it
ListGroups(chats) ==
    {reps \in SUBSET chats :
        \A c \in chats :
            Cardinality({x \in reps : ListGroupKey(x) = ListGroupKey(c)}) = 1}

\* SELECT ... FROM chat c WHERE 1=1 ... GROUP BY c.group_id
\* ORDER BY last_message_date DESC LIMIT ?
ListQuery(limit, includeSms) ==
    {Limit(rows, limit) :
        rows \in UNION {OrderByDesc({ListRow(c) : c \in reps}) :
                          reps \in ListGroups(ListFilter(includeSms))}}

\* conversations.map(c => ({...}))
ListFormat(c) ==
    [chat_id |-> c.chat_id,
     name |-> OrElse(c.display_name, c.chat_identifier),
     type |-> IF c.participant_count > 1 THEN "group" ELSE "individual",
     service |-> c.service_name,
     participants |-> c.participant_count,
     last_activity |-> IF c.last_message_date = NullDate
                          \/ c.last_message_date = [sec |-> 0, ns |-> 0]
                       THEN NullDisplay ELSE ToDisplay(c.last_message_date)]

listConversations(limitArg, includeSmsArg, fault) ==
    LET limit == Default(limitArg, 50)
        includeSms == Default(includeSmsArg, TRUE)
        qs == <<"list_chats">>
    IN  CASE fault = "open" -> {OpenFailed}
          [] fault = "query1" -> {Caught(QueryError, qs)}
          [] OTHER ->
               UNION {IF fault = "format" /\ \E i \in 1..Len(rows) :
                                                ListFormat(rows[i]).last_activity # NullDisplay
                      THEN \* toISOString() throws after the handle was closed
                           CaughtAfterClose(RangeError, qs)
                      ELSE {Returned([op |-> "list", count |-> Len(rows),
                                      conversations |-> [i \in 1..Len(rows) |-> ListFormat(rows[i])]], qs)} :
                        rows \in ListQuery(limit, includeSms)}

-----------------------------------------------------------------------------
(* searchConversations *)

\* the grouping written as GROUP BY c.ROWID
SearchGroupKeyByRow(c) ==
    [group_id |-> NULL, rowid |-> c]

\* GROUP BY COALESCE(c.group_id, c.ROWID)
SearchGroupKey(c) ==
    IF chat[c].group_id # NULL THEN [group_id |-> chat[c].group_id, rowid |-> 0]
    ELSE [group_id |-> NULL, rowid |-> c]

\* chats with a row of chat LEFT JOIN chat_handle_join LEFT JOIN handle that passes
\* WHERE c.display_name LIKE ? OR c.chat_identifier LIKE ? OR h.id LIKE ?
SearchMatches(query) ==
    {c \in DOMAIN chat :
        \/ Like(chat[c].display_name, query)
        \/ Like(chat[c].chat_identifier, query)
        \/ \E j \in chat_handle_join :
              j.chat_id = c /\ j.handle_id \in handle /\ Like(HandleText(j.handle_id), query)}

SearchRow(c) ==
    [chat_id |-> c, display_name |-> chat[c].display_name,
     chat_identifier |-> chat[c].chat_identifier, service_name |-> chat[c].service_name,
     group_id |-> chat[c].group_id, participant_count |-> ParticipantCount(c),
     ord |-> [sec |-> c, ns |-> 0]]

\* every way to keep one chat out of each group of the GROUP BY of the search
SearchGroups(chats) ==
    {reps \in SUBSET chats :
        \A c \in chats :
            Cardinality({x \in reps : SearchGroupKey(x) = SearchGroupKey(c)}) = 1}

\* ... GROUP BY COALESCE(c.group_id, c.ROWID) ORDER BY c.ROWID DESC LIMIT ?
SearchQuery(query, limit) ==
    {Limit(rows, limit) :
        rows \in UNION {OrderByDesc({SearchRow(c) : c \in reps}) :
                          reps \in SearchGroups(SearchMatches(query))}}

\* SELECT h.id as identifier FROM chat_handle_join chj JOIN handle h ... WHERE chj.chat_id = ?
ParticipantsQuery(c) ==
    AnyOrder({[identifier |-> HandleText(j.handle_id)] :
                j \in {x \in chat_handle_join : x.chat_id = c /\ x.handle_id \in handle}})

\* the loop over the conversations: every list of participant lists the queries can return
RECURSIVE SearchResults(_)
SearchResults(convs) ==
    IF convs = <<>> THEN {<<>>}
    ELSE {<<[chat_id |-> Head(convs).chat_id,
             name |-> OrElse(Head(convs).display_name, Head(convs).chat_identifier),
             type |-> IF Head(convs).participant_count > 1 THEN "group" ELSE "individual",
             service |-> Head(convs).service_name,
             participants |-> [i \in 1..Len(ps) |-> ps[i].identifier]]>> \o rest :
            ps \in ParticipantsQuery(Head(convs).chat_id), rest \in SearchResults(Tail(convs))}

searchConversations(query, limitArg, fault) ==
    LET limit == Default(limitArg, 20)
    IN  CASE fault = "open" -> {OpenFailed}
          [] fault = "query1" -> {Caught(QueryError, <<"search_chats">>)}
          [] OTHER ->
               UNION {IF fault = "query2" /\ convs # <<>>
                      THEN {Caught(QueryError, <<"search_chats", "participants">>)}
                      ELSE {Returned([op |-> "search", query |-> query, found |-> Len(results),
                                      results |-> results],
                                     <<"search_chats">> \o [i \in 1..Len(convs) |-> "participants"]) :
                              results \in SearchResults(convs)} :
                        convs \in SearchQuery(query, limit)}

-----------------------------------------------------------------------------
(* readMessages and getRecentMessages *)

YouText == <<"Y", "o", "u">>
UnknownText == <<"U", "n", "k", "n", "o", "w", "n">>

\* LEFT JOIN handle h ON m.handle_id = h.ROWID: h.id, NULL without a handle row
SenderOf(m) ==
    IF message[m].handle_id \in handle THEN HandleText(message[m].handle_id) ELSE NullText

\* AND m.date > ? AND m.text IS NOT NULL AND m.text != ''
MessageFilter(m, threshold) ==
    /\ AfterThreshold(message[m].date, threshold)
    /\ message[m].text # NULL
    /\ message[m].text # ""

\* one row of a message SELECT; message_id and chat_id name the joined rows the
\* selected columns were read from (chat_id 0: no chat row joined)
MessageRow(m, c) ==
    [message_id |-> m, chat_id |-> c, timestamp |-> SqlDatetime(message[m].date),
     text |-> message[m].text, is_from_me |-> message[m].is_from_me,
     sender |-> SenderOf(m), service |-> message[m].service, ord |-> message[m].date]

\* messages.map(m => ({...})) of readMessages
ReadFormat(m) ==
    [message_id |-> m.message_id, chat_id |-> m.chat_id,
     timestamp |-> m.timestamp,
     sender |-> IF m.is_from_me THEN YouText ELSE OrElse(m.sender, UnknownText),
     text |-> m.text, service |-> m.service]

\* the lookup written with LIMIT 1
RelatedChatsFirst(group_id) ==
    {c \in DOMAIN chat :
        /\ SqlEq(chat[c].group_id, group_id)
        /\ \A d \in DOMAIN chat : SqlEq(chat[d].group_id, group_id) => c <= d}

\* SELECT ROWID FROM chat WHERE group_id = ?
RelatedChats(group_id) ==
    {c \in DOMAIN chat : SqlEq(chat[c].group_id, group_id)}

\* FROM chat_message_join cmj JOIN message m ... WHERE cmj.chat_id IN (...) AND ...
\* ORDER BY m.date DESC LIMIT ?
ChatMessagesQuery(chatIds, threshold, limit) ==
    {Limit(rows, limit) :
        rows \in OrderByDesc({MessageRow(j.message_id, j.chat_id) :
                    j \in {x \in chat_message_join :
                             /\ x.chat_id \in Range(chatIds)
                             /\ x.message_id \in DOMAIN message
                             /\ MessageFilter(x.message_id, threshold)}})}

\* SELECT ROWID, id FROM handle WHERE id LIKE ? OR id LIKE ? OR id LIKE ?
HandlesQuery(identifier) ==
    {h \in handle :
        \/ Like(HandleText(h), identifier)
        \/ Like(HandleText(h), cleanNumber(identifier))
        \/ Like(HandleText(h), <<"+">> \o cleanNumber(identifier))}

\* FROM message m ... WHERE m.handle_id IN (...) AND ... ORDER BY m.date DESC LIMIT ?
HandleMessagesQuery(handleIds, threshold, limit) ==
    {Limit(rows, limit) :
        rows \in OrderByDesc({MessageRow(m, 0) :
                    m \in {x \in DOMAIN message :
                             /\ message[x].handle_id \in Range(handleIds)
                             /\ MessageFilter(x, threshold)}})}

ReadResult(info, messages) ==
    [op |-> "read", conversation |-> info, message_count |-> Len(messages),
     messages |-> [i \in 1..Len(messages) |-> ReadFormat(messages[i])]]

\* the phone/email branch of readMessages
ReadByContact(identifier, limit, threshold, fault) ==
    LET handles == HandlesQuery(identifier)
        q1 == <<"handles_like">>
        q2 == <<"handles_like", "messages_by_handle">>
    IN  CASE fault = "query1" -> {Caught(QueryError, q1)}
          [] handles = {} -> {Caught(ContactNotFound(identifier), q1)}
          [] fault = "query2" -> {Caught(QueryError, q2)}
          [] OTHER ->
               UNION {{Returned(ReadResult([type |-> "individual", name |-> identifier,
                                            service |-> NULL, chat_ids |-> <<>>,
                                            handles |-> [i \in 1..Len(handleIds) |-> HandleText(handleIds[i])]],
                                           messages), q2) :
                         messages \in HandleMessagesQuery(handleIds, threshold, limit)} :
                      handleIds \in AnyOrder(handles)}

\* the missing chat handed to the phone/email branch
ChatMissingFallsBack(identifier, limit, threshold, fault) ==
    ReadByContact(identifier, limit, threshold, fault)

\* if (!chatInfo) { throw new Error(`Chat not found: ${chatId}`); }
ChatMissing(identifier, limit, threshold, fault) ==
    {Caught(ChatNotFound(parseInt(identifier)), <<"chat_by_rowid">>)}

\* the numeric branch of readMessages
ReadByChatId(identifier, limit, threshold, fault) ==
    LET chatId == parseInt(identifier)
        q1 == <<"chat_by_rowid">>
        q2 == <<"chat_by_rowid", "chats_by_group">>
        q3 == <<"chat_by_rowid", "chats_by_group", "messages_by_chat">>
    IN  CASE fault = "query1" -> {Caught(QueryError, q1)}
          [] chatId \notin DOMAIN chat -> ChatMissing(identifier, limit, threshold, fault)
          [] fault = "query2" -> {Caught(QueryError, q2)}
          [] fault = "query3" -> {Caught(QueryError, q3)}
          [] OTHER ->
               UNION {{Returned(ReadResult([type |-> "group",
                                            name |-> OrElse(chat[chatId].display_name,
                                                            chat[chatId].chat_identifier),
                                            service |-> chat[chatId].service_name,
                                            chat_ids |-> chatIds, handles |-> <<>>],
                                           messages), q3) :
                         messages \in ChatMessagesQuery(chatIds, threshold, limit)} :
                      chatIds \in AnyOrder(RelatedChats(chat[chatId].group_id))}

readMessages(identifier, limitArg, daysBackArg, fault, now) ==
    LET limit == Default(limitArg, 50)
        daysBack == Default(daysBackArg, 30)
        threshold == getAppleTimestamp(now, [num |-> daysBack, den |-> 1])
    IN  IF fault = "open" THEN {OpenFailed}
        ELSE IF IsNumeric(identifier)
             THEN ReadByChatId(identifier, limit, threshold, fault)
             ELSE ReadByContact(identifier, limit, threshold, fault)

\* message m LEFT JOIN chat_message_join cmj LEFT JOIN chat c: one row per joined
\* chat_message_join row (c.* NULL without a chat row), one row with NULLs when
\* the message has none
RecentJoin(m) ==
    LET js == {j \in chat_message_join : j.message_id = m}
    IN  IF js = {} THEN {MessageRow(m, 0)}
        ELSE {MessageRow(m, j.chat_id) : j \in js}

\* messages.map(m => ({...})) of getRecentMessages
RecentFormat(m) ==
    LET known == m.chat_id \in DOMAIN chat
        group_name == IF known THEN chat[m.chat_id].display_name ELSE NullText
        chat_identifier == IF known THEN chat[m.chat_id].chat_identifier ELSE NullText
    IN  [message_id |-> m.message_id, chat_id |-> m.chat_id,
         timestamp |-> m.timestamp,
         conversation |-> OrElse(group_name, OrElse(chat_identifier,
                                                    OrElse(m.sender, UnknownText))),
         sender |-> IF m.is_from_me THEN YouText ELSE OrElse(m.sender, UnknownText),
         text |-> m.text,
         service |-> IF known THEN chat[m.chat_id].service_name ELSE NULL]

RecentQuery(threshold, limit) ==
    {Limit(rows, limit) :
        rows \in OrderByDesc(UNION {RecentJoin(m) :
                    m \in {x \in DOMAIN message : MessageFilter(x, threshold)}})}

getRecentMessages(limitArg, hoursBackArg, fault, now) ==
    LET limit == Default(limitArg, 30)
        hoursBack == Default(hoursBackArg, 24)
        threshold == getAppleTimestamp(now, [num |-> hoursBack, den |-> 24])
        qs == <<"recent_messages">>
    IN  CASE fault = "open" -> {OpenFailed}
          [] fault = "query1" -> {Caught(QueryError, qs)}
          [] OTHER ->
               {Returned([op |-> "recent", hours_back |-> hoursBack, count |-> Len(messages),
                          messages |-> [i \in 1..Len(messages) |-> RecentFormat(messages[i])]], qs) :
                  messages \in RecentQuery(threshold, limit)}

-----------------------------------------------------------------------------
(* The CallTool request handler *)

\* { content: [{ type: 'text', text: JSON.stringify(result, null, 2) }] }
JsonResponse(result) ==
    [content |-> <<[type |-> "text",
                    text |-> [prefix |-> "", message |-> NoError, json |-> result]]>>]

\* { content: [{ type: 'text', text: `Error: ${error.message}` }] }
ErrorResponse(error) ==
    [content |-> <<[type |-> "text",
                    text |-> [prefix |-> "Error: ", message |-> error, json |-> NoResult]]>>]

NoResponse == [content |-> <<>>]
NoRequest == [name |-> "", args |-> <<>>, fault |-> "none", now |-> Clock]

\* a handler without the catch block: a failure leaves the handler
CatchNothing(outcome) ==
    [response |-> IF outcome.threw THEN NoResponse ELSE JsonResponse(outcome.result),
     propagated |-> outcome.threw]

\* try { switch (name) { ... return await this.<operation>(...) } }
\* catch (error) { return { content: [{ type: 'text', text: `Error: ...` }] } }
Catch(outcome) ==
    [response |-> IF outcome.threw THEN ErrorResponse(outcome.error)
                  ELSE JsonResponse(outcome.result),
     propagated |-> FALSE]

\* the handler returns: what the call did to the store handle is recorded with it
Finish(req, outcome) ==
    /\ pc' = "done"
    /\ request' = req
    /\ response' = Catch(outcome).response
    /\ propagated' = Catch(outcome).propagated
    /\ acquired' = outcome.acquired
    /\ released' = outcome.released
    /\ handleOpen' = outcome.handleOpen
    /\ raised' = outcome.raised
    /\ queries' = outcome.queries
    /\ UNCHANGED store

-----------------------------------------------------------------------------
(* Requests *)

\* A request carries, besides its arguments, the failure the environment injects
\* into the call: "open" (openDb rejects), "query<k>" (the k-th query of the call
\* rejects; none when the call sends fewer), "format" (toISOString() throws on a
\* last_message_date that is no valid time value), or "none".
Limits == {<<>>} \cup {<<n>> : n \in 1..MaxLimit}
IncludeSms == {<<>>, <<TRUE>>, <<FALSE>>}
DaysBack == {<<>>, <<1>>}
HoursBack == {<<>>, <<48>>}
Identifiers == {<<"7">>, <<"8">>, <<"9">>, <<"1", "2", "3", "4", "5">>, RawPhone}
Queries == {<<"f", "a">>, <<"c">>, <<"5", "5", "5">>}

ListConversationsCall ==
    /\ pc = "idle"
    /\ \E limit \in Limits, include_sms \in IncludeSms,
          fault \in {"none", "open", "query1", "format"} :
          \E outcome \in listConversations(limit, include_sms, fault) :
             Finish([name |-> "list_conversations",
                     args |-> [limit |-> limit, include_sms |-> include_sms],
                     fault |-> fault, now |-> Clock], outcome)

SearchConversationsCall ==
    /\ pc = "idle"
    /\ \E query \in Queries, limit \in Limits,
          fault \in {"none", "open", "query1", "query2"} :
          \E outcome \in searchConversations(query, limit, fault) :
             Finish([name |-> "search_conversations",
                     args |-> [query |-> query, limit |-> limit],
                     fault |-> fault, now |-> Clock], outcome)

ReadMessagesCall ==
    /\ pc = "idle"
    /\ \E identifier \in Identifiers, limit \in Limits, days_back \in DaysBack,
          fault \in {"none", "open", "query1", "query2", "query3"} :
          \E outcome \in readMessages(identifier, limit, days_back, fault, Clock) :
             Finish([name |-> "read_messages",
                     args |-> [identifier |-> identifier, limit |-> limit,
                               days_back |-> days_back],
                     fault |-> fault, now |-> Clock], outcome)

GetRecentMessagesCall ==
    /\ pc = "idle"
    /\ \E limit \in Limits, hours_back \in HoursBack,
          fault \in {"none", "open", "query1"} :
          \E outcome \in getRecentMessages(limit, hours_back, fault, Clock) :
             Finish([name |-> "get_recent_messages",
                     args |-> [limit |-> limit, hours_back |-> hours_back],
                     fault |-> fault, now |-> Clock], outcome)

\* default: throw new Error(`Unknown tool: ${name}`), inside the handler's try
UnknownToolCall ==
    /\ pc = "idle"
    /\ LET name == <<"s", "e", "n", "d">>
       IN  Finish([name |-> "send", args |-> <<>>, fault |-> "none", now |-> Clock],
                  [threw |-> TRUE, error |-> UnknownTool(name), result |-> NoResult,
                   acquired |-> 0, released |-> 0, handleOpen |-> FALSE,
                   raised |-> <<UnknownTool(name)>>, queries |-> <<>>])

\* the transport has sent the response; the server waits for the next request
Respond ==
    /\ pc = "done"
    /\ pc' = "idle"
    /\ request' = NoRequest
    /\ response' = NoResponse
    /\ propagated' = FALSE
    /\ acquired' = 0
    /\ released' = 0
    /\ handleOpen' = FALSE
    /\ raised' = <<>>
    /\ queries' = <<>>
    /\ UNCHANGED store

-----------------------------------------------------------------------------
(* Initial stores *)

InitCall ==
    /\ pc = "idle"
    /\ request = NoRequest
    /\ response = NoResponse
    /\ propagated = FALSE
    /\ acquired = 0
    /\ released = 0
    /\ handleOpen = FALSE
    /\ raised = <<>>
    /\ queries = <<>>

\* stores that vary the group keys of the chats and the chats of two messages
InitDirectory ==
    /\ \E g \in [ChatIds -> GroupIds \cup {NULL}] :
          chat = [c \in ChatIds |-> ChatRow(c, g[c])]
    /\ handle = HandleIds
    /\ message = [m \in MsgIds |->
                    MsgRow(m, CASE m = 1 -> Ago(3600, 500000000)
                                [] m = 2 -> Ago(24 * 3600, 1)
                                [] m = 3 -> Ago(25 * 3600, 0), "hi")]
    /\ \E f \in [{1, 2} -> ChatIds] :
          chat_message_join = Joins({<<f[1], 1>>, <<f[2], 2>>})
    /\ chat_handle_join = BaseHandleJoin

\* stores that vary the dates, the texts and the chats of two messages; chats 7
\* and 8 are the two protocol records of one group, chat 9 has no group key
InitTimeline ==
    /\ chat = [c \in ChatIds |-> ChatRow(c, IF c = 9 THEN NULL ELSE "G1")]
    /\ handle = HandleIds
    /\ \E d1 \in Dates, d2 \in Dates, t1 \in {"hi", ""}, t2 \in {"hi", NULL} :
          message = [m \in MsgIds |->
                       CASE m = 1 -> MsgRow(m, d1, t1)
                         [] m = 2 -> MsgRow(m, d2, t2)
                         [] m = 3 -> MsgRow(m, Ago(3600, 0), "hi")]
    /\ \E c1 \in {{7}, {7, 8}}, c2 \in {{8}, {9}, {}} :
          chat_message_join =
             Joins({<<c, 1>> : c \in c1} \cup {<<c, 2>> : c \in c2} \cup {<<9, 3>>})
    /\ chat_handle_join = BaseHandleJoin

\* stores that vary the handle rows
InitContacts ==
    /\ chat = [c \in ChatIds |-> ChatRow(c, IF c = 9 THEN NULL ELSE "G1")]
    /\ handle \in SUBSET HandleIds
    /\ message = [m \in MsgIds |-> MsgRow(m, Ago(3600, 0), "hi")]
    /\ chat_message_join = Joins({<<7, 1>>, <<8, 2>>, <<9, 3>>})
    /\ chat_handle_join = BaseHandleJoin

Init ==
    /\ InitCall
    /\ InitDirectory \/ InitTimeline \/ InitContacts

Next ==
    \/ ListConversationsCall
    \/ SearchConversationsCall
    \/ ReadMessagesCall
    \/ GetRecentMessagesCall
    \/ UnknownToolCall
    \/ Respond

Spec == Init /\ [][Next]_vars

-----------------------------------------------------------------------------
(* Vocabulary of the properties *)

Done(name) == pc = "done" /\ request.name = name
Text == response.content[1].text
Succeeded == Text.prefix = ""
Payload == Text.json

\* the explicit or default limit of the request being handled
RequestLimit ==
    Default(request.args.limit,
            CASE request.name = "list_conversations" -> 50
              [] request.name = "search_conversations" -> 20
              [] request.name = "read_messages" -> 50
              [] request.name = "get_recent_messages" -> 30)

\* now minus the window of the request, in the store's native unit, with now the
\* current Unix second
WindowStart ==
    LET seconds == IF request.name = "read_messages"
                   THEN Default(request.args.days_back, 30) * 86400
                   ELSE Default(request.args.hours_back, 24) * 3600
    IN  [sec |-> request.now.sec - appleEpoch - seconds, ns |-> 0]

\* stored message m is inside the window of the request and has text
Qualifies(m) ==
    /\ DateLess(WindowStart, message[m].date)
    /\ message[m].text # NULL
    /\ message[m].text # ""

\* the stored messages joined to at least one of the chat records cs
MessagesOf(cs) ==
    {m \in DOMAIN message :
        \E c \in cs : [chat_id |-> c, message_id |-> m] \in chat_message_join}

ReturnedIds == {Payload.messages[i].message_id : i \in 1..Len(Payload.messages)}

\* a read_messages request whose identifier is all digits and names a stored chat
ReadsChat ==
    /\ Done("read_messages")
    /\ request.fault = "none"
    /\ IsNumeric(request.args.identifier)
    /\ parseInt(request.args.identifier) \in DOMAIN chat

RequestChat == parseInt(request.args.identifier)

-----------------------------------------------------------------------------
(* Properties *)

\* C1: once a call has finished, no handle it opened is still open, and it made
\* exactly one release per acquisition, on every exit path.
C1_AcquireReleasePaired ==
    pc = "done" => (~handleOpen /\ released = acquired)

\* C2: reading by the id of a chat whose group_id is not NULL resolves to exactly
\* the chats sharing that group_id (the named one included), and the messages
\* returned are drawn from all of them: each is joined to one of them, and unless
\* the limit cut the list, every qualifying message of every one of them is there.
C2_GroupExpansion ==
    (ReadsChat /\ chat[RequestChat].group_id # NULL) =>
        LET members == {c \in DOMAIN chat : chat[c].group_id = chat[RequestChat].group_id}
            ids == Payload.conversation.chat_ids
            all == {m \in MessagesOf(members) : Qualifies(m)}
        IN  /\ Succeeded
            /\ Range(ids) = members
            /\ Len(ids) = Cardinality(members)
            /\ RequestChat \in Range(ids)
            /\ ReturnedIds \subseteq all
            /\ Len(Payload.messages) < RequestLimit => ReturnedIds = all

\* C2 witness: chat 7 is read, chats 7 and 8 share its group, and the result holds
\* a message joined to 7 only and a message joined to 8 only.
C2_Witness ==
    /\ ReadsChat
    /\ RequestChat = 7
    /\ Succeeded
    /\ Range(Payload.conversation.chat_ids) = {7, 8}
    /\ \E m1 \in ReturnedIds, m2 \in ReturnedIds :
          /\ MessagesOf({7}) \cap {m1, m2} = {m1}
          /\ MessagesOf({8}) \cap {m1, m2} = {m2}

\* C3: a fetch through the conversation join (readMessages by chat id,
\* getRecentMessages) returns each stored message at most once.
C3_NoDuplicateMessage ==
    (/\ pc = "done"
     /\ Succeeded
     /\ \/ request.name = "get_recent_messages"
        \/ request.name = "read_messages" /\ IsNumeric(request.args.identifier)) =>
        \A i, j \in 1..Len(Payload.messages) :
            Payload.messages[i].message_id = Payload.messages[j].message_id => i = j

\* the entries of a list or search result that stand for the chats of group key g
EntriesOfGroup(entries, g) ==
    {i \in 1..Len(entries) : chat[entries[i].chat_id].group_id = g}

\* C4: for every non-NULL group key, the results of listConversations and of
\* searchConversations never hold two entries of that group, and hold exactly one
\* when the group is eligible (a record passes the service filter, resp. matches
\* the query) and the limit cut nothing off.
C4_OneEntryPerGroup ==
    /\ (Done("list_conversations") /\ Succeeded) =>
          \A g \in GroupIds :
             LET n == Cardinality(EntriesOfGroup(Payload.conversations, g))
                 eligible == \E c \in DOMAIN chat :
                                /\ chat[c].group_id = g
                                /\ \/ Default(request.args.include_sms, TRUE)
                                   \/ chat[c].service_name = "iMessage"
             IN  /\ n <= 1
                 /\ (eligible /\ Len(Payload.conversations) < RequestLimit) => n = 1
    /\ (Done("search_conversations") /\ Succeeded) =>
          \A g \in GroupIds :
             LET n == Cardinality(EntriesOfGroup(Payload.results, g))
                 eligible == \E c \in SearchMatches(request.args.query) :
                                chat[c].group_id = g
             IN  /\ n <= 1
                 /\ (eligible /\ Len(Payload.results) < RequestLimit) => n = 1

\* C4 witness: a list and a search that return one entry for a group of three records.
C4_Witness ==
    /\ \A c \in DOMAIN chat : chat[c].group_id = "G1"
    /\ \/ /\ Done("list_conversations")
          /\ Succeeded
          /\ Len(Payload.conversations) = 1
          /\ RequestLimit > 1
       \/ /\ Done("search_conversations")
          /\ Succeeded
          /\ Len(Payload.results) = 1
          /\ RequestLimit > 1
          /\ Cardinality(SearchMatches(request.args.query)) = 3

\* C5: in listConversations a chat whose group_id is NULL is never merged with
\* another record: unless the service filter excludes it or the limit cut the
\* list, it has an entry of its own.
C5_NullNeverMerged ==
    (/\ Done("list_conversations")
     /\ Succeeded
     /\ Len(Payload.conversations) < RequestLimit) =>
        \A c \in DOMAIN chat :
            (/\ chat[c].group_id = NULL
             /\ \/ Default(request.args.include_sms, TRUE)
                \/ chat[c].service_name = "iMessage") =>
               \E i \in 1..Len(Payload.conversations) : Payload.conversations[i].chat_id = c

\* C6: reading by the id of a chat whose group_id is NULL resolves to exactly that
\* one record and returns its messages that pass the window and text filters.
C6_NullGroupReadsOneRecord ==
    (ReadsChat /\ chat[RequestChat].group_id = NULL) =>
        LET all == {m \in MessagesOf({RequestChat}) : Qualifies(m)}
        IN  /\ Succeeded
            /\ Payload.conversation.chat_ids = <<RequestChat>>
            /\ ReturnedIds \subseteq all
            /\ Len(Payload.messages) < RequestLimit => ReturnedIds = all

\* C7: the kind of an identifier is final: a call with an all-digit identifier
\* never sends a handle query, and when no chat has that id it fails with
\* "Chat not found: <id>".
C7_NumericNeverFallsBack ==
    (Done("read_messages") /\ IsNumeric(request.args.identifier)) =>
        /\ "handles_like" \notin Range(queries)
        /\ "messages_by_handle" \notin Range(queries)
        /\ (request.fault = "none" /\ RequestChat \notin DOMAIN chat) =>
              /\ Text.prefix = "Error: "
              /\ Text.message.msg = "Chat not found: "
              /\ Text.message.arg = request.args.identifier

\* C7 witness: "12345" names no chat while the stored handle "5551234567"
\* contains those digits, and the call has failed with chat-not-found.
C7_Witness ==
    /\ Done("read_messages")
    /\ request.fault = "none"
    /\ request.args.identifier = <<"1", "2", "3", "4", "5">>
    /\ RequestChat \notin DOMAIN chat
    /\ \E h \in handle : Like(HandleText(h), request.args.identifier)
    /\ Text.message = ChatNotFound(12345)

\* C8: resolving "+1 (555) 123-4567" matches a handle stored as "5551234567", one
\* stored as "+15551234567" and one whose id contains the raw input: each such
\* stored handle is in the resolved set and the call does not fail.
C8_PhoneFormsMatch ==
    (/\ Done("read_messages")
     /\ request.fault = "none"
     /\ request.args.identifier = RawPhone) =>
        \A h \in handle :
            (\/ HandleText(h) = BarePhone
             \/ HandleText(h) = PlusPhone
             \/ Like(HandleText(h), RawPhone)) =>
               /\ Succeeded
               /\ HandleText(h) \in Range(Payload.conversation.handles)

\* the stored messages a successful fetch draws from: all of them for
\* getRecentMessages, those joined to the resolved chats or sent by the resolved
\* handles for readMessages
Scope ==
    IF request.name = "get_recent_messages" THEN DOMAIN message
    ELSE IF Payload.conversation.type = "group"
         THEN MessagesOf(Range(Payload.conversation.chat_ids))
         ELSE {m \in DOMAIN message :
                 /\ message[m].handle_id \in handle
                 /\ HandleText(message[m].handle_id) \in Range(Payload.conversation.handles)}

\* C9: every message getRecentMessages and readMessages return has text and a
\* date strictly after now minus the window; the list is in descending date
\* order and no longer than the limit; and no qualifying message is left out
\* while an older one is returned.
C9_WindowOrderLimit ==
    (/\ pc = "done"
     /\ request.name \in {"get_recent_messages", "read_messages"}
     /\ Succeeded) =>
        LET msgs == Payload.messages
            date(i) == message[msgs[i].message_id].date
        IN  /\ \A i \in 1..Len(msgs) :
                  /\ msgs[i].text # NULL
                  /\ msgs[i].text # ""
                  /\ msgs[i].text = message[msgs[i].message_id].text
                  /\ DateLess(WindowStart, date(i))
            /\ \A i, j \in 1..Len(msgs) : i < j => ~DateLess(date(i), date(j))
            /\ Len(msgs) <= RequestLimit
            /\ \A m \in Scope :
                  (Qualifies(m) /\ \E i \in 1..Len(msgs) : DateLess(date(i), message[m].date))
                     => m \in ReturnedIds

\* C9 witness: getRecentMessages with the default 24 hours over a store with a
\* message 25 hours old and one 1 hour old, both with text: only the latter is
\* returned.
C9_Witness ==
    /\ Done("get_recent_messages")
    /\ Succeeded
    /\ request.args.hours_back = <<>>
    /\ \E old \in DOMAIN message, new \in DOMAIN message :
          /\ message[old].date = Ago(25 * 3600, 0)
          /\ message[old].text = "hi"
          /\ message[new].date = Ago(3600, 0)
          /\ old \notin ReturnedIds
          /\ new \in ReturnedIds

\* C10: every failure raised while a tool call is handled is caught: the handler
\* returns one text payload, "Error: " with the message of a failure that was
\* raised and no result when something failed, the full result otherwise, and no
\* failure leaves the handler.
C10_ErrorsBecomeText ==
    pc = "done" =>
        /\ ~propagated
        /\ Len(response.content) = 1
        /\ response.content[1].type = "text"
        /\ raised = <<>> => (Text.prefix = "" /\ Payload.op # "none")
        /\ raised # <<>> =>
              /\ Text.prefix = "Error: "
              /\ Text.message \in Range(raised)
              /\ Payload.op = "none"

\* C10 witness: readMessages has thrown contact-not-found after acquiring the
\* handle, and the handler has returned it as an error text.
C10_Witness ==
    /\ Done("read_messages")
    /\ acquired = 1
    /\ Text.prefix = "Error: "
    /\ Text.message = ContactNotFound(request.args.identifier)

====
